---- MODULE Spec2Model ----
(***************************************************************************)
(* Model of src/disk_interface.cc: DirName, DiskInterface::MakeDirs and    *)
(* the RealDiskInterface primitives (Stat, WriteFile, MakeDir, ReadFile,   *)
(* RemoveFile), running against a small model of the host file system.     *)
(*                                                                         *)
(* A path is a sequence of characters.  A name character stands for a      *)
(* whole file name (a run of non-separator characters): "a" is a one       *)
(* character name and "L" a name of LongNameLen characters, so that        *)
(* path.size() can exceed MAX_PATH with few tokens.  Two name characters   *)
(* are never adjacent in the paths enumerated.  The current directory is   *)
(* the root directory, so "a" and "/a" name the same file.                 *)
(***************************************************************************)
EXTENDS Integers, Sequences, FiniteSets, TLC

\* ------------------------------------------------------------------ bounds
MaxLen == 4
MaxInodes == 2
MaxOpen == 1
LongNameLen == 130

\* ------------------------------------------------------- program constants
MAX_PATH == 260
FiletimeUnitsPerSecond == 10000000

VARIABLES
  win32,      \* build flag: TRUE when compiled with _WIN32
  fs,         \* host file system: resolved path (sequence of names) -> node
  open_fps,   \* number of FILE handles opened by the layer and not closed
  pc,         \* caller position: "idle", "stat", "mkdir" (inside MakeDirs), "done"
  call,       \* current invocation: operation, arguments, state at entry
  stack,      \* MakeDirs recursion: the `dir` local of every active frame
  trace,      \* primitive / OS calls made by the current invocation, in order
  diags,      \* number of Error() messages emitted by the current invocation
  result,     \* value returned by the current invocation
  raced       \* another actor changed the file system during this invocation

vars == <<win32, fs, open_fps, pc, call, stack, trace, diags, result, raced>>

Max(S) == CHOOSE x \in S : \A y \in S : y <= x
Min(S) == CHOOSE x \in S : \A y \in S : x <= y

\* ----------------------------------------------------------- path strings
Names == {"a", "L"}

\* DIR_SEP: the characters DirName treats as path separators.
DIR_SEP(win) == IF win THEN {"\\", "/"} ELSE {"/"}

\* Length in characters of one token of a path.
CharLen(c) == IF c = "L" THEN LongNameLen ELSE 1

RECURSIVE Size(_)
\* string::size()
Size(path) == IF path = <<>> THEN 0 ELSE CharLen(Head(path)) + Size(Tail(path))

\* Paths the caller may pass: no two name characters adjacent; a backslash
\* only on the build where it is a separator, and only as first character.
WellFormed(path, win) ==
  /\ \A i \in 1..(Len(path) - 1) : ~(path[i] \in Names /\ path[i + 1] \in Names)
  /\ \A i \in 1..Len(path) : path[i] = "\\" => (win /\ i = 1)

PathsOf(win) ==
  { p \in UNION { [1..n -> Names \cup {"/", "\\"}] : n \in 0..MaxLen } : WellFormed(p, win) }

PosixPaths == PathsOf(FALSE)
Win32Paths == PathsOf(TRUE)

Paths(win) == IF win THEN Win32Paths ELSE PosixPaths

npos == -1

\* string::find_last_of, as a 0-based position.
find_last_of(path, seps) ==
  LET I == { i \in 1..Len(path) : path[i] \in seps }
  IN  IF I = {} THEN npos ELSE Max(I) - 1

RECURSIVE SkipSeparatorRun(_, _, _)
\* while (slash_pos > 0 && kPathSeparators.find(path[slash_pos - 1]) != npos) --slash_pos;
SkipSeparatorRun(path, slash_pos, seps) ==
  IF slash_pos > 0 /\ path[slash_pos] \in seps   \* path[slash_pos - 1], 0-based
    THEN SkipSeparatorRun(path, slash_pos - 1, seps)
    ELSE slash_pos

DirName(path, win) ==
  LET slash_pos == find_last_of(path, DIR_SEP(win))
  IN  IF slash_pos = npos
        THEN <<>>
        ELSE SubSeq(path, 1, SkipSeparatorRun(path, slash_pos, DIR_SEP(win)))

\* ------------------------------------------------------- host file system
\* A node is [kind, mtime, data]; mtime is kept in the platform's native unit
\* (time_t seconds, or FILETIME ticks on the _WIN32 build).
\* File contents exercised: empty, one byte, an embedded newline.
Contents == { <<>>, <<"x">>, <<"x", "\n", "x">> }

NativeTime(t, win) == IF win THEN t * FiletimeUnitsPerSecond ELSE t

\* Modification times a file may carry: anything utimes() can store.  A
\* FILETIME is unsigned.
StoredTimes(win) ==
  IF win THEN { NativeTime(t, win) : t \in {0, 1, 2} } ELSE {-1, 0, 1, 2}

\* Readings of the host clock when a file is created or written.
Clock == {1}

OsSeparators(win) == IF win THEN {"\\", "/"} ELSE {"/"}

IsName(c, win) == c \notin OsSeparators(win)

Key(path, win) == SelectSeq(path, LAMBDA c : c \notin OsSeparators(win))

TrailingSeparator(path, win) ==
  path # <<>> /\ path[Len(path)] \in OsSeparators(win)

Parent(key) == SubSeq(key, 1, Len(key) - 1)

Root == <<>>

Keys(win) == { Key(p, win) : p \in Paths(win) } \ {Root}

DirNodes(times) == [kind : {"dir"}, mtime : times, data : {<<>>}]
FileNodes(times, contents) == [kind : {"file"}, mtime : times, data : contents]

RootNode(win) == [kind |-> "dir", mtime |-> NativeTime(1, win), data |-> <<>>]

WellFormedFs(f) ==
  \A k \in DOMAIN f \ {Root} : Parent(k) \in DOMAIN f /\ f[Parent(k)].kind = "dir"

\* Every file system of at most MaxInodes files and directories below the
\* root, with modification times and contents drawn from the given sets.
InitFS(win, times, contents) ==
  LET shapes == { K \in SUBSET Keys(win) :
                    /\ Cardinality(K) <= MaxInodes
                    /\ \A k \in K : Parent(k) \in K \cup {Root} }
      fill(K) == { f \in [K -> DirNodes(times) \cup FileNodes(times, contents)] :
                     \A k \in K : Parent(k) # Root => f[Parent(k)].kind = "dir" }
  IN  { [k \in K \cup {Root} |-> IF k = Root THEN RootNode(win) ELSE f[k]] :
          <<K, f>> \in UNION { {K} \X fill(K) : K \in shapes } }

\* The windows CRT and API reject a path longer than MAX_PATH that carries no
\* leading backslash escape; the CRT reports it as ENOENT.
OsRejectsLength(path, win) ==
  win /\ path # <<>> /\ path[1] # "\\" /\ Size(path) > MAX_PATH

\* errno of walking the directories that lead to key.
WalkErr(f, key) ==
  LET bad == { i \in 0..(Len(key) - 1) :
                 LET k == SubSeq(key, 1, i) IN k \notin DOMAIN f \/ f[k].kind # "dir" }
  IN  IF bad = {} THEN "OK"
      ELSE IF SubSeq(key, 1, Min(bad)) \in DOMAIN f THEN "ENOTDIR" ELSE "ENOENT"

\* errno of resolving path to an existing file or directory.
Resolve(f, path, win) ==
  LET key == Key(path, win) IN
  IF path = <<>> \/ OsRejectsLength(path, win) THEN "ENOENT"
  ELSE IF WalkErr(f, key) # "OK" THEN WalkErr(f, key)
  ELSE IF key \notin DOMAIN f THEN "ENOENT"
  ELSE IF TrailingSeparator(path, win) /\ f[key].kind = "file" THEN "ENOTDIR"
  ELSE "OK"

\* The windows CRT has no ENOTDIR: a bad path component is ENOENT.
Errno(e, win) == IF win /\ e = "ENOTDIR" THEN "ENOENT" ELSE e

Exists(f, path, win) == Resolve(f, path, win) = "OK"

Full(f) == Cardinality(DOMAIN f \ {Root}) >= MaxInodes

AddNode(f, key, node, now, win) ==
  [k \in DOMAIN f \cup {key} |->
     IF k = key THEN node
     ELSE IF k = Parent(key) THEN [f[k] EXCEPT !.mtime = NativeTime(now, win)]
     ELSE f[k]]

DelNode(f, key, now, win) ==
  [k \in DOMAIN f \ {key} |->
     IF k = Parent(key) THEN [f[k] EXCEPT !.mtime = NativeTime(now, win)] ELSE f[k]]

\* stat(2).
sys_stat(f, path, fault) ==
  IF fault THEN [err |-> "EACCES", st_mtime |-> 0]
  ELSE IF Resolve(f, path, FALSE) # "OK"
    THEN [err |-> Resolve(f, path, FALSE), st_mtime |-> 0]
    ELSE [err |-> "OK", st_mtime |-> f[Key(path, FALSE)].mtime]

\* GetFileAttributesEx: a missing last component is ERROR_FILE_NOT_FOUND, a
\* missing or non-directory component before it ERROR_PATH_NOT_FOUND.
GetFileAttributesEx(f, path, fault) ==
  LET key == Key(path, TRUE) IN
  IF fault THEN [err |-> "ERROR_ACCESS_DENIED", ftLastWriteTime |-> 0]
  ELSE IF Resolve(f, path, TRUE) = "OK"
    THEN [err |-> "OK", ftLastWriteTime |-> f[key].mtime]
  ELSE IF path # <<>> /\ WalkErr(f, key) = "OK" /\ key \notin DOMAIN f
    THEN [err |-> "ERROR_FILE_NOT_FOUND", ftLastWriteTime |-> 0]
    ELSE [err |-> "ERROR_PATH_NOT_FOUND", ftLastWriteTime |-> 0]

\* FiletimeToTimestamp: FILETIME ticks to the shared TimeStamp unit.
FiletimeToTimestamp(ft) == ft \div FiletimeUnitsPerSecond

\* ::MakeDir(path): one mkdir / _mkdir call; 0 or a negative value.
sys_mkdir(f, path, win, now, fault) ==
  LET key == Key(path, win) IN
  IF fault THEN [err |-> "EACCES", fs |-> f]
  ELSE IF path = <<>> \/ OsRejectsLength(path, win) THEN [err |-> "ENOENT", fs |-> f]
  ELSE IF WalkErr(f, key) # "OK" THEN [err |-> Errno(WalkErr(f, key), win), fs |-> f]
  ELSE IF key \in DOMAIN f THEN [err |-> "EEXIST", fs |-> f]
  ELSE IF Full(f) THEN [err |-> "ENOSPC", fs |-> f]
  ELSE [err |-> "OK",
        fs |-> AddNode(f, key, [kind |-> "dir", mtime |-> NativeTime(now, win),
                                data |-> <<>>], now, win)]

\* remove(3): unlink for a file; rmdir for an empty directory (the windows
\* CRT only unlinks files).
sys_remove(f, path, win, now, fault) ==
  LET key == Key(path, win) IN
  IF fault THEN [err |-> "EACCES", fs |-> f]
  ELSE IF Resolve(f, path, win) # "OK"
    THEN [err |-> Errno(Resolve(f, path, win), win), fs |-> f]
  ELSE IF key = Root THEN [err |-> "EBUSY", fs |-> f]
  ELSE IF f[key].kind = "dir" /\ win THEN [err |-> "EACCES", fs |-> f]
  ELSE IF \E k \in DOMAIN f : k # Root /\ Parent(k) = key
    THEN [err |-> "ENOTEMPTY", fs |-> f]
  ELSE [err |-> "OK", fs |-> DelNode(f, key, now, win)]

\* Mutant of fopen_w: the file is opened without being truncated.
fopen_keep_contents(f, path, win, now, fault) ==
  LET key == Key(path, win) IN
  IF fault THEN [err |-> "EACCES", fs |-> f]
  ELSE IF path = <<>> \/ OsRejectsLength(path, win) THEN [err |-> "ENOENT", fs |-> f]
  ELSE IF WalkErr(f, key) # "OK" THEN [err |-> Errno(WalkErr(f, key), win), fs |-> f]
  ELSE IF TrailingSeparator(path, win) \/ (key \in DOMAIN f /\ f[key].kind = "dir")
    THEN [err |-> (IF win THEN "EACCES" ELSE "EISDIR"), fs |-> f]
  ELSE IF key \in DOMAIN f THEN [err |-> "OK", fs |-> f]
  ELSE IF Full(f) THEN [err |-> "ENOSPC", fs |-> f]
  ELSE [err |-> "OK",
        fs |-> AddNode(f, key, [kind |-> "file", mtime |-> NativeTime(now, win),
                                data |-> <<>>], now, win)]

\* fopen(path, "w"): create the file, or truncate it to length zero.
fopen_w(f, path, win, now, fault) ==
  LET key == Key(path, win) IN
  IF fault THEN [err |-> "EACCES", fs |-> f]
  ELSE IF path = <<>> \/ OsRejectsLength(path, win) THEN [err |-> "ENOENT", fs |-> f]
  ELSE IF WalkErr(f, key) # "OK" THEN [err |-> Errno(WalkErr(f, key), win), fs |-> f]
  ELSE IF TrailingSeparator(path, win) \/ (key \in DOMAIN f /\ f[key].kind = "dir")
    THEN [err |-> (IF win THEN "EACCES" ELSE "EISDIR"), fs |-> f]
  ELSE IF key \in DOMAIN f
    THEN [err |-> "OK",
          fs |-> [f EXCEPT ![key] = [kind |-> "file", mtime |-> NativeTime(now, win),
                                     data |-> <<>>]]]
  ELSE IF Full(f) THEN [err |-> "ENOSPC", fs |-> f]
  ELSE [err |-> "OK",
        fs |-> AddNode(f, key, [kind |-> "file", mtime |-> NativeTime(now, win),
                                data |-> <<>>], now, win)]

\* The bytes of an open stream that reach the file: data is appended at the
\* stream position.
stream_write(f, key, data, now, win) ==
  [f EXCEPT ![key] = [@ EXCEPT !.data = @ \o data, !.mtime = NativeTime(now, win)]]

\* ::ReadFile(path, &contents, &err, binary): the whole file, or a negated
\* errno with its text in err.  The byte model has no newline translation,
\* so binary selects nothing here.
sys_ReadFile(f, path, win, binary, fault) ==
  LET key == Key(path, win) IN
  IF fault THEN [ret |-> "EACCES", contents |-> <<>>, err |-> "EACCES"]
  ELSE IF Resolve(f, path, win) # "OK"
    THEN [ret |-> Errno(Resolve(f, path, win), win), contents |-> <<>>,
          err |-> Errno(Resolve(f, path, win), win)]
  ELSE IF f[key].kind = "dir"
    THEN [ret |-> (IF win THEN "EACCES" ELSE "EISDIR"), contents |-> <<>>,
          err |-> (IF win THEN "EACCES" ELSE "EISDIR")]
  ELSE [ret |-> "OK", contents |-> f[key].data, err |-> ""]

\* ------------------------------------------------------ RealDiskInterface
\* One entry of `trace`: a call, the errno the host reported, what the call
\* returned, and whether the host made it fail for a reason outside the file
\* system's contents (a fault: permissions, I/O error, no space).
Called(fn, path, errno, ret, inj) ==
  [fn |-> fn, path |-> path, errno |-> errno, ret |-> ret, inj |-> inj]

\* RealDiskInterface::Stat -> [ret, diag, errno]
RealStat(f, path, win, fault) ==
  IF win THEN
    IF path # <<>> /\ path[1] # "\\" /\ Size(path) > MAX_PATH
      THEN [ret |-> -1, diag |-> 1, errno |-> "MAX_PATH"]
      ELSE LET attrs == GetFileAttributesEx(f, path, fault) IN
           IF attrs.err # "OK"
             THEN IF attrs.err \in {"ERROR_FILE_NOT_FOUND", "ERROR_PATH_NOT_FOUND"}
                    THEN [ret |-> 0, diag |-> 0, errno |-> attrs.err]
                    ELSE [ret |-> -1, diag |-> 1, errno |-> attrs.err]
             ELSE [ret |-> FiletimeToTimestamp(attrs.ftLastWriteTime), diag |-> 0,
                   errno |-> "OK"]
  ELSE LET st == sys_stat(f, path, fault) IN
       IF st.err # "OK"
         THEN IF st.err = "ENOENT"
                THEN [ret |-> 0, diag |-> 0, errno |-> st.err]
                ELSE [ret |-> -1, diag |-> 1, errno |-> st.err]
         ELSE [ret |-> st.st_mtime, diag |-> 0, errno |-> "OK"]

\* Mutant of RealMakeDir: the Error() call of line 117 is missing.
RealMakeDirSilent(f, path, win, now, fault) ==
  LET r == sys_mkdir(f, path, win, now, fault) IN
  IF r.err # "OK"
    THEN [ok |-> FALSE, diag |-> 0, errno |-> r.err, fs |-> r.fs]
    ELSE [ok |-> TRUE, diag |-> 0, errno |-> "OK", fs |-> r.fs]

\* RealDiskInterface::MakeDir -> [ok, diag, errno, fs]
RealMakeDir(f, path, win, now, fault) ==
  LET r == sys_mkdir(f, path, win, now, fault) IN
  IF r.err # "OK"
    THEN [ok |-> FALSE, diag |-> 1, errno |-> r.err, fs |-> r.fs]
    ELSE [ok |-> TRUE, diag |-> 0, errno |-> "OK", fs |-> r.fs]

\* Mutant of RealRemoveFile: the ENOENT case of lines 136-137 is missing.
RealRemoveFileNoEnoentCase(f, path, win, now, fault) ==
  LET r == sys_remove(f, path, win, now, fault) IN
  IF r.err # "OK"
    THEN [ret |-> -1, diag |-> 1, errno |-> r.err, fs |-> r.fs]
    ELSE [ret |-> 0, diag |-> 0, errno |-> "OK", fs |-> r.fs]

\* RealDiskInterface::RemoveFile -> [ret, diag, errno, fs]
RealRemoveFile(f, path, win, now, fault) ==
  LET r == sys_remove(f, path, win, now, fault) IN
  IF r.err # "OK"
    THEN IF r.err = "ENOENT"
           THEN [ret |-> 1, diag |-> 0, errno |-> r.err, fs |-> r.fs]
           ELSE [ret |-> -1, diag |-> 1, errno |-> r.err, fs |-> r.fs]
    ELSE [ret |-> 0, diag |-> 0, errno |-> "OK", fs |-> r.fs]

\* RealDiskInterface::ReadFile -> [contents, err, errno]
RealReadFile(f, path, win, binary, fault) ==
  LET r == sys_ReadFile(f, path, win, binary, fault) IN
  IF r.ret = "ENOENT"
    THEN [contents |-> r.contents, err |-> "", errno |-> r.ret]
    ELSE [contents |-> r.contents, err |-> r.err, errno |-> r.ret]

\* RealDiskInterface::WriteFile -> [ok, diag, fs, opened, closed, calls].
\* fault names the stdio call the host makes fail ("none", "fopen", "fwrite",
\* "fclose"); n is the number of bytes that reach the file when it does.
RealWriteFile(f, path, contents, win, now, fault, n) ==
  LET key == Key(path, win)
      fp == fopen_w(f, path, win, now, fault = "fopen")
      written == IF fault = "fwrite" /\ n < Len(contents) THEN n ELSE Len(contents)
      flushed == IF fault = "fclose" /\ n < Len(contents) THEN n ELSE Len(contents)
      c_open == Called("fopen", path, fp.err, IF fp.err = "OK" THEN 0 ELSE -1,
                       fp.err \in {"EACCES", "ENOSPC"})
      c_short == Called("fwrite", path, "EIO", written, TRUE)
      c_write == Called("fwrite", path, "OK", written, FALSE)
      c_eof == Called("fclose", path, "EIO", -1, TRUE)
      c_close == Called("fclose", path, "OK", 0, FALSE)
  IN
  IF fp.err # "OK"
    THEN [ok |-> FALSE, diag |-> 1, fs |-> fp.fs, opened |-> 0, closed |-> 0,
          calls |-> <<c_open>>]
  ELSE IF written < Len(contents)
    THEN [ok |-> FALSE, diag |-> 1,
          fs |-> stream_write(fp.fs, key, SubSeq(contents, 1, written), now, win),
          opened |-> 1, closed |-> 0, calls |-> <<c_open, c_short>>]
  ELSE IF fault = "fclose"
    THEN [ok |-> FALSE, diag |-> 1,
          fs |-> stream_write(fp.fs, key, SubSeq(contents, 1, flushed), now, win),
          opened |-> 1, closed |-> 1, calls |-> <<c_open, c_write, c_eof>>]
  ELSE [ok |-> TRUE, diag |-> 0,
        fs |-> stream_write(fp.fs, key, contents, now, win),
        opened |-> 1, closed |-> 1, calls |-> <<c_open, c_write, c_close>>]

\* ---------------------------------------------------------- DiskInterface
\* MakeDirs runs as a stack of frames, one per recursive call; a frame is its
\* `dir` local.  The top frame is about to call Stat(dir) (pc = "stat") or
\* MakeDir(dir) (pc = "mkdir"); every frame below it waits for the recursive
\* call it made at line 56 and calls MakeDir(dir) when that returns true.

\* A frame returned `value` to its caller: false propagates (lines 57-58),
\* true lets the caller go on to MakeDir (line 59).
FrameReturns(stk, value) ==
  LET rest == SubSeq(stk, 1, Len(stk) - 1) IN
  IF ~value THEN [pc |-> "done", stack |-> <<>>, ok |-> FALSE]
  ELSE IF rest = <<>> THEN [pc |-> "done", stack |-> <<>>, ok |-> TRUE]
  ELSE [pc |-> "mkdir", stack |-> rest, ok |-> FALSE]

\* Mutant of AfterStat: the recursive call of line 56 is missing.
AfterStatNoRecursion(stk, mtime, win) ==
  IF mtime < 0 THEN FrameReturns(stk, FALSE)
  ELSE IF mtime > 0 THEN FrameReturns(stk, TRUE)
  ELSE [pc |-> "mkdir", stack |-> stk, ok |-> FALSE]

\* Mutant of AfterStat: the error test of lines 50-51 is missing.
AfterStatErrorAsAbsent(stk, mtime, win) ==
  LET dir == stk[Len(stk)] IN
  IF mtime > 0 THEN FrameReturns(stk, TRUE)
  ELSE IF DirName(dir, win) = <<>>
    THEN [pc |-> "mkdir", stack |-> stk, ok |-> FALSE]
    ELSE [pc |-> "stat", stack |-> Append(stk, DirName(dir, win)), ok |-> FALSE]

\* Lines 50-56 of the top frame, once Stat(dir) returned mtime.
AfterStat(stk, mtime, win) ==
  LET dir == stk[Len(stk)] IN
  IF mtime < 0 THEN FrameReturns(stk, FALSE)
  ELSE IF mtime > 0 THEN FrameReturns(stk, TRUE)
  ELSE IF DirName(dir, win) = <<>>
    THEN [pc |-> "mkdir", stack |-> stk, ok |-> FALSE]
    ELSE [pc |-> "stat", stack |-> Append(stk, DirName(dir, win)), ok |-> FALSE]

\* Line 59 of the top frame, once MakeDir(dir) returned made.
AfterMakeDir(stk, made) == FrameReturns(stk, made)

\* ---------------------------------------------------------------- actions
NoResult == [ok |-> FALSE, val |-> 0, out |-> <<>>, err |-> ""]
NoCall == [op |-> "none", path |-> <<>>, contents |-> <<>>, binary |-> FALSE,
           fs0 |-> <<>>, open0 |-> 0]

Enter(op, path, contents, binary) ==
  [op |-> op, path |-> path, contents |-> contents, binary |-> binary,
   fs0 |-> fs, open0 |-> open_fps]

InitWith(times(_), contents) ==
  /\ win32 \in BOOLEAN
  /\ fs \in InitFS(win32, times(win32), contents)
  /\ open_fps = 0
  /\ pc = "idle"
  /\ call = NoCall
  /\ stack = <<>>
  /\ trace = <<>>
  /\ diags = 0
  /\ result = NoResult
  /\ raced = FALSE

Init == InitWith(StoredTimes, Contents)

\* File contents play no part in Stat, MakeDir and MakeDirs.
InitDirs == InitWith(StoredTimes, {<<>>})

\* Modification times play no part in WriteFile, ReadFile and RemoveFile.
CreatedTimes(win) == {NativeTime(1, win)}
InitFiles == InitWith(CreatedTimes, Contents)

Stat(path, fault) ==
  /\ pc = "idle"
  /\ LET r == RealStat(fs, path, win32, fault) IN
       /\ trace' = <<Called("Stat", path, r.errno, r.ret, fault)>>
       /\ diags' = r.diag
       /\ result' = [NoResult EXCEPT !.val = r.ret]
  /\ call' = Enter("Stat", path, <<>>, FALSE)
  /\ pc' = "done"
  /\ UNCHANGED <<win32, fs, open_fps, stack, raced>>

MakeDir(path, now, fault) ==
  /\ pc = "idle"
  /\ LET r == RealMakeDir(fs, path, win32, now, fault) IN
       /\ fs' = r.fs
       /\ trace' = <<Called("MakeDir", path, r.errno, IF r.ok THEN 0 ELSE -1,
                            r.errno \in {"EACCES", "ENOSPC"})>>
       /\ diags' = r.diag
       /\ result' = [NoResult EXCEPT !.ok = r.ok]
  /\ call' = Enter("MakeDir", path, <<>>, FALSE)
  /\ pc' = "done"
  /\ UNCHANGED <<win32, open_fps, stack, raced>>

RemoveFile(path, now, fault) ==
  /\ pc = "idle"
  /\ LET r == RealRemoveFile(fs, path, win32, now, fault) IN
       /\ fs' = r.fs
       /\ trace' = <<Called("remove", path, r.errno, r.ret, fault)>>
       /\ diags' = r.diag
       /\ result' = [NoResult EXCEPT !.val = r.ret]
  /\ call' = Enter("RemoveFile", path, <<>>, FALSE)
  /\ pc' = "done"
  /\ UNCHANGED <<win32, open_fps, stack, raced>>

ReadFile(path, binary, fault) ==
  /\ pc = "idle"
  /\ LET r == RealReadFile(fs, path, win32, binary, fault) IN
       /\ trace' = <<Called("ReadFile", path, r.errno, 0, fault)>>
       /\ result' = [NoResult EXCEPT !.out = r.contents, !.err = r.err]
  /\ diags' = 0
  /\ call' = Enter("ReadFile", path, <<>>, binary)
  /\ pc' = "done"
  /\ UNCHANGED <<win32, fs, open_fps, stack, raced>>

WriteFile(path, contents, now, fault, n) ==
  /\ pc = "idle"
  /\ open_fps < MaxOpen
  /\ LET r == RealWriteFile(fs, path, contents, win32, now, fault, n) IN
       /\ fs' = r.fs
       /\ open_fps' = open_fps + r.opened - r.closed
       /\ trace' = r.calls
       /\ diags' = r.diag
       /\ result' = [NoResult EXCEPT !.ok = r.ok]
  /\ call' = Enter("WriteFile", path, contents, FALSE)
  /\ pc' = "done"
  /\ UNCHANGED <<win32, stack, raced>>

\* Lines 46-48: entry of the outermost MakeDirs call.
MakeDirs(path) ==
  /\ pc = "idle"
  /\ call' = Enter("MakeDirs", path, <<>>, FALSE)
  /\ IF DirName(path, win32) = <<>>
       THEN pc' = "done" /\ stack' = <<>> /\ result' = [NoResult EXCEPT !.ok = TRUE]
       ELSE pc' = "stat" /\ stack' = <<DirName(path, win32)>> /\ result' = NoResult
  /\ trace' = <<>>
  /\ diags' = 0
  /\ UNCHANGED <<win32, fs, open_fps, raced>>

\* Line 49 of the top frame and what follows it up to the next call.
MakeDirsStat(fault) ==
  /\ pc = "stat"
  /\ LET dir == stack[Len(stack)]
         r == RealStat(fs, dir, win32, fault)
         next == AfterStat(stack, r.ret, win32)
     IN  /\ trace' = Append(trace, Called("Stat", dir, r.errno, r.ret, fault))
         /\ diags' = diags + r.diag
         /\ pc' = next.pc
         /\ stack' = next.stack
         /\ result' = [NoResult EXCEPT !.ok = next.ok]
  /\ UNCHANGED <<win32, fs, open_fps, call, raced>>

\* Line 59 of the top frame and what follows it up to the next call.
MakeDirsMakeDir(now, fault) ==
  /\ pc = "mkdir"
  /\ LET dir == stack[Len(stack)]
         r == RealMakeDir(fs, dir, win32, now, fault)
         next == AfterMakeDir(stack, r.ok)
     IN  /\ fs' = r.fs
         /\ trace' = Append(trace, Called("MakeDir", dir, r.errno,
                                          IF r.ok THEN 0 ELSE -1,
                                          r.errno \in {"EACCES", "ENOSPC"}))
         /\ diags' = diags + r.diag
         /\ pc' = next.pc
         /\ stack' = next.stack
         /\ result' = [NoResult EXCEPT !.ok = next.ok]
  /\ UNCHANGED <<win32, open_fps, call, raced>>

\* The caller takes the result; the layer keeps nothing of the invocation.
Return ==
  /\ pc = "done"
  /\ pc' = "idle"
  /\ call' = NoCall
  /\ stack' = <<>>
  /\ trace' = <<>>
  /\ diags' = 0
  /\ result' = NoResult
  /\ raced' = FALSE
  /\ UNCHANGED <<win32, fs, open_fps>>

\* Another process creates a directory while a MakeDirs call is between two
\* of its own calls.
OtherActorMakeDir(path, now) ==
  /\ pc \in {"stat", "mkdir"}
  /\ sys_mkdir(fs, path, win32, now, FALSE).err = "OK"
  /\ fs' = sys_mkdir(fs, path, win32, now, FALSE).fs
  /\ raced' = TRUE
  /\ UNCHANGED <<win32, open_fps, pc, call, stack, trace, diags, result>>

WriteFaults == {"none", "fopen", "fwrite", "fclose"}

Next ==
  \/ pc = "idle" /\ \E path \in Paths(win32), binary \in BOOLEAN, fault \in BOOLEAN :
                      ReadFile(path, binary, fault)
  \/ pc = "idle" /\ \E path \in Paths(win32), fault \in BOOLEAN : Stat(path, fault)
  \/ pc = "idle" /\ \E path \in Paths(win32), now \in Clock, fault \in BOOLEAN :
                      MakeDir(path, now, fault)
  \/ pc = "idle" /\ \E path \in Paths(win32), now \in Clock, fault \in BOOLEAN :
                      RemoveFile(path, now, fault)
  \/ pc = "idle" /\ \E path \in Paths(win32), contents \in Contents, now \in Clock,
                       fault \in WriteFaults :
                      \E n \in 0..Len(contents) : WriteFile(path, contents, now, fault, n)
  \/ pc = "idle" /\ \E path \in Paths(win32) : MakeDirs(path)
  \/ pc = "stat" /\ \E fault \in BOOLEAN : MakeDirsStat(fault)
  \/ pc = "mkdir" /\ \E now \in Clock, fault \in BOOLEAN : MakeDirsMakeDir(now, fault)
  \/ Return

Spec == Init /\ [][Next]_vars

\* The directory operations alone.
NextDirs ==
  \/ pc = "idle" /\ \E path \in Paths(win32), fault \in BOOLEAN : Stat(path, fault)
  \/ pc = "idle" /\ \E path \in Paths(win32), now \in Clock, fault \in BOOLEAN :
                      MakeDir(path, now, fault)
  \/ pc = "idle" /\ \E path \in Paths(win32) : MakeDirs(path)
  \/ pc = "stat" /\ \E fault \in BOOLEAN : MakeDirsStat(fault)
  \/ pc = "mkdir" /\ \E now \in Clock, fault \in BOOLEAN : MakeDirsMakeDir(now, fault)
  \/ Return

SpecDirs == InitDirs /\ [][NextDirs]_vars

\* The file primitives alone.
NextFiles ==
  \/ pc = "idle" /\ \E path \in Paths(win32), now \in Clock, fault \in BOOLEAN :
                      RemoveFile(path, now, fault)
  \/ pc = "idle" /\ \E path \in Paths(win32), binary \in BOOLEAN, fault \in BOOLEAN :
                      ReadFile(path, binary, fault)
  \/ pc = "idle" /\ \E path \in Paths(win32), contents \in Contents, now \in Clock,
                       fault \in WriteFaults :
                      \E n \in 0..Len(contents) : WriteFile(path, contents, now, fault, n)
  \/ Return

SpecFiles == InitFiles /\ [][NextFiles]_vars

\* MakeDirs running while other processes use the same file system.
NextRace ==
  \/ pc = "idle" /\ \E path \in Paths(win32) : MakeDirs(path)
  \/ pc = "stat" /\ \E fault \in BOOLEAN : MakeDirsStat(fault)
  \/ pc = "mkdir" /\ \E now \in Clock, fault \in BOOLEAN : MakeDirsMakeDir(now, fault)
  \/ pc \in {"stat", "mkdir"} /\ \E path \in Paths(win32), now \in Clock :
                                   OtherActorMakeDir(path, now)
  \/ Return

SpecRace == InitDirs /\ [][NextRace]_vars

\* ================================================================= claims
Done(op) == pc = "done" /\ call.op = op

\* The directories on the way to the last component of path, root first:
\* every non-empty prefix of the names that precede the last separator.
AncestorKeys(path, win) ==
  LET seps == { i \in 1..Len(path) : path[i] \in OsSeparators(win) }
      key == IF seps = {} THEN <<>> ELSE Key(SubSeq(path, 1, Max(seps)), win)
  IN  [i \in 1..Len(key) |-> SubSeq(key, 1, i)]

CallsOf(fn) == SelectSeq(trace, LAMBDA c : c.fn = fn)

\* No call of the invocation failed for a reason outside the file system's
\* contents, and no Stat was refused for the length of its path.
NoFailureInjected ==
  \A i \in 1..Len(trace) : ~trace[i].inj /\ trace[i].errno # "MAX_PATH"

\* C1: when no ancestor directory of p exists and no Stat or MakeDir failure
\* is injected, MakeDirs(p) calls MakeDir exactly once on every ancestor
\* directory, root first, returns true, and Stat of every directory it
\* created is then positive.
C1_MakeDirsCreatesAncestorsInOrder ==
  ( /\ Done("MakeDirs")
    /\ NoFailureInjected
    /\ \A i \in DOMAIN AncestorKeys(call.path, win32) :
         AncestorKeys(call.path, win32)[i] \notin DOMAIN call.fs0 )
  => /\ result.ok
     /\ [i \in 1..Len(CallsOf("MakeDir")) |-> Key(CallsOf("MakeDir")[i].path, win32)]
          = AncestorKeys(call.path, win32)
     /\ \A i \in 1..Len(CallsOf("MakeDir")) :
          RealStat(fs, CallsOf("MakeDir")[i].path, win32, FALSE).ret > 0

C1_Witness ==
  /\ Done("MakeDirs")
  /\ NoFailureInjected
  /\ DOMAIN call.fs0 = {Root}
  /\ Len(AncestorKeys(call.path, win32)) >= 2
  /\ Len(CallsOf("MakeDir")) >= 2
  /\ result.ok

\* C2: when every ancestor directory of p already exists, MakeDirs(p) makes
\* no MakeDir call and returns true.
C2_ExistingChainNeedsNoMakeDir ==
  ( /\ Done("MakeDirs")
    /\ NoFailureInjected
    /\ \A i \in DOMAIN AncestorKeys(call.path, win32) :
         /\ AncestorKeys(call.path, win32)[i] \in DOMAIN call.fs0
         /\ call.fs0[AncestorKeys(call.path, win32)[i]].kind = "dir" )
  => result.ok /\ CallsOf("MakeDir") = <<>>

\* C3: Stat of a path that does not exist returns exactly 0 and reports no
\* diagnostic, also below a regular file and beyond the path length limit.
C3_StatOfMissingPathIsZero ==
  ( Done("Stat") /\ ~trace[1].inj /\ ~Exists(call.fs0, call.path, win32) )
  => result.val = 0 /\ diags = 0

\* C7: once a Stat made by MakeDirs returns a negative value, MakeDirs is
\* over and has returned false: that Stat is its last call, it made no
\* MakeDir call, no path was stat-ed twice, and the file system is as it was
\* when MakeDirs was called.
C7_StatErrorEndsMakeDirs ==
  ( call.op = "MakeDirs"
    /\ \E i \in 1..Len(trace) : trace[i].fn = "Stat" /\ trace[i].ret < 0 )
  => /\ pc = "done"
     /\ ~result.ok
     /\ trace[Len(trace)].fn = "Stat" /\ trace[Len(trace)].ret < 0
     /\ \A i \in 1..(Len(trace) - 1) : trace[i].fn = "Stat" /\ trace[i].ret = 0
     /\ \A i, j \in 1..Len(trace) : i # j => trace[i].path # trace[j].path
     /\ fs = call.fs0

C7_Witness ==
  /\ Done("MakeDirs")
  /\ Len(trace) >= 2
  /\ trace[Len(trace)].fn = "Stat" /\ trace[Len(trace)].ret < 0
  /\ ~result.ok

\* C8: Stat of a path that exists returns its modification time, which is
\* strictly positive whatever time is stored; so MakeDirs never calls MakeDir
\* on a directory that exists.
C8_StatOfExistingPathIsPositive ==
  /\ ( Done("Stat") /\ NoFailureInjected /\ Exists(call.fs0, call.path, win32) )
     => /\ result.val > 0
        /\ NativeTime(result.val, win32) = call.fs0[Key(call.path, win32)].mtime
  /\ ( Done("MakeDirs") /\ NoFailureInjected )
     => \A i \in 1..Len(trace) :
          trace[i].fn = "MakeDir" => Key(trace[i].path, win32) \notin DOMAIN call.fs0

\* C9 (first part): a MakeDir of MakeDirs that finds its directory already
\* there fails, with one diagnostic, and MakeDirs returns false.
C9_LostRaceFailsMakeDirs ==
  ( Done("MakeDirs") /\ \E i \in 1..Len(trace) : trace[i].errno = "EEXIST" )
  => /\ ~result.ok
     /\ diags = 1
     /\ trace[Len(trace)].fn = "MakeDir" /\ trace[Len(trace)].errno = "EEXIST"
     /\ Key(trace[Len(trace)].path, win32) \in DOMAIN fs

\* C9: MakeDir inside MakeDirs fails with "already exists" exactly when
\* another actor created the directory between the Stat and the MakeDir;
\* without such an interleaving the failure cannot happen.
C9_AlreadyExistsOnlyByRace ==
  /\ C9_LostRaceFailsMakeDirs
  /\ ( call.op = "MakeDirs" /\ \E i \in 1..Len(trace) : trace[i].errno = "EEXIST" )
     => raced

\* C10: when WriteFile has returned, the layer holds as many open file
\* handles as before the call.
C10_WriteFileLeavesNoHandleOpen ==
  Done("WriteFile") => open_fps = call.open0

AbsentErrnos == {"ENOENT", "ERROR_FILE_NOT_FOUND", "ERROR_PATH_NOT_FOUND"}

HostFailed(c) ==
  /\ c.errno # "OK"
  /\ ~(c.fn \in {"Stat", "remove", "ReadFile"} /\ c.errno \in AbsentErrnos)

Outcome ==
  IF \E i \in 1..Len(trace) : HostFailed(trace[i]) THEN "error"
  ELSE IF call.op \in {"Stat", "RemoveFile", "ReadFile"} /\ trace[1].errno \in AbsentErrnos
    THEN "absent"
  ELSE "success"

\* What the caller reads from the returned value alone.
Returned ==
  CASE call.op = "Stat" ->
         IF result.val < 0 THEN "error" ELSE IF result.val = 0 THEN "absent" ELSE "success"
    [] call.op = "RemoveFile" ->
         IF result.val < 0 THEN "error" ELSE IF result.val = 1 THEN "absent" ELSE "success"
    [] call.op = "ReadFile" -> IF result.err # "" THEN "error" ELSE "success"
    [] OTHER -> IF result.ok THEN "success" ELSE "error"

C5_MissingPathReturnsOne ==
  ( Done("RemoveFile") /\ ~trace[1].inj /\ ~Exists(call.fs0, call.path, win32) )
  => result.val = 1 /\ diags = 0 /\ fs = call.fs0

====
